---------------------------- MODULE Spec2Model ----------------------------
(***************************************************************************)
(* webpack-html-file-injector: the loader of src/src/loader.ts.            *)
(*                                                                         *)
(* A text is a sequence of characters, each a one-character string; ETX    *)
(* stands for the character U+0003.  Positions are 1-based (a JavaScript   *)
(* index plus one); position 0 stands for JavaScript's -1 / "no match".    *)
(*                                                                         *)
(* The synchronous recursion of parseAndReplace is modelled in small       *)
(* steps: `stack' holds one frame per active call of parseAndReplace, and  *)
(* each action is the handling of one tag (or the return of one call).     *)
(***************************************************************************)
EXTENDS Naturals, Sequences, FiniteSets, TLC

VARIABLES
    source,        \* the text handed to HtmlInjectorLoader
    resourcePath,  \* this.resourcePath of the loader context
    stack,         \* the active calls of parseAndReplace, outermost first
    exc,           \* TRUE while an exception thrown by a callee propagates
    status,        \* "running", "returned" (callback called) or "thrown"
    result,        \* the text given to callback(null, result)
    deps,          \* the paths passed to this.addDependency
    reads,         \* history: the paths fs.readFileSync has read successfully
    step,          \* history: what the latest step did to its tag
    shape          \* history: the chains of tags the loader's input leads to

vars == <<source, resourcePath, stack, exc, status, result, deps, reads, step, shape>>

---------------------------------------------------------------------------
(* Characters and text helpers (String.prototype semantics).               *)

ETX == "ETX"

Lower ==
    {"a", "b", "c", "d", "e", "f", "g", "h", "i", "j", "k", "l", "m",
     "n", "o", "p", "q", "r", "s", "t", "u", "v", "w", "x", "y", "z"}

\* [\t ] of the regexp's first group
SpaceOrTab == {" ", "\t"}

\* \s of a JavaScript regexp, and the characters String.prototype.trim strips
WhiteSpace == {" ", "\t", "\n", "\r", "\f"}

\* the characters after which ^ matches under the m flag
LineTerminator == {"\n", "\r"}

Max(S) == CHOOSE x \in S : \A y \in S : y <= x
Min(S) == CHOOSE x \in S : \A y \in S : x <= y

\* the element of a one-element set; Only({F(x) : x \in {e}}) is F(e) with e
\* taken once
Only(S) == CHOOSE x \in S : TRUE

\* s.startsWith(lit, p - 1)
StartsWithAt(s, p, lit) ==
    /\ p >= 1
    /\ p + Len(lit) - 1 <= Len(s)
    /\ SubSeq(s, p, p + Len(lit) - 1) = lit

\* the last position of the longest run, starting at p, of characters that are
\* in cls (neg = FALSE) or not in cls (neg = TRUE); p - 1 when the run is empty
RunEnd(s, p, cls, neg) ==
    IF p > Len(s) THEN p - 1
    ELSE CHOOSE k \in (p - 1)..Len(s) :
            /\ k = Len(s) \/ ((s[k + 1] \in cls) = neg)
            /\ \A j \in p..k : (s[j] \in cls) # neg

\* haystack.indexOf(needle) + 1: the first position of needle, 0 when absent
indexOf(haystack, needle) ==
    Only({IF hits = {} THEN 0 ELSE Min(hits) :
             hits \in {{p \in 1..(Len(haystack) - Len(needle) + 1) :
                           StartsWithAt(haystack, p, needle)}}})

\* s.slice(from - 1): the text from position `from' on
SliceFrom(s, from) == SubSeq(s, from, Len(s))

\* s.trim()
trim(s) ==
    LET first == RunEnd(s, 1, WhiteSpace, FALSE) + 1
        last  == CHOOSE k \in 0..Len(s) :
                    /\ k = 0 \/ s[k] \notin WhiteSpace
                    /\ \A j \in (k + 1)..Len(s) : s[j] \in WhiteSpace
    IN  SubSeq(s, first, last)

\* mutation of IndentLines: the regexp without its m flag, so that ^ matches at
\* the start of the text only
IndentFirstLine(replacement, whitespace) == whitespace \o replacement

\* replacement.replace(/^/gm, whitespace): whitespace at the start of the text
\* and after every line terminator
IndentLines(replacement, whitespace) ==
    LET from[p \in Nat] ==
            IF p > Len(replacement) THEN <<>>
            ELSE Only({IF q > Len(replacement)
                       THEN SubSeq(replacement, p, Len(replacement))
                       ELSE SubSeq(replacement, p, q) \o whitespace \o from[q + 1] :
                          q \in {RunEnd(replacement, p, LineTerminator, TRUE) + 1}})
    IN  whitespace \o from[1]

\* s.split(sep) for a one-character separator
split(s, sep) ==
    LET from[p \in Nat] ==
            LET q == RunEnd(s, p, {sep}, TRUE) + 1
            IN  IF q > Len(s) THEN <<SubSeq(s, p, Len(s))>>
                ELSE <<SubSeq(s, p, q - 1)>> \o from[q + 1]
    IN  from[1]

\* parts.join(sep)
join(parts, sep) ==
    LET upTo[i \in Nat] ==
            IF i = 0 THEN <<>>
            ELSE IF i = 1 THEN parts[1]
            ELSE upTo[i - 1] \o sep \o parts[i]
    IN  upTo[Len(parts)]

---------------------------------------------------------------------------
\* The regexp of parseAndReplace (loader.ts line 41), written here with blanks
\* between its parts:
\*     ( ^[\t ]* )?  <webpack-  ([a-z]+)  " src="  ("|')  ([^\3]+)  \3  \s*  \/?  >
\* with the flags m and g.  Inside a character class \3 is the octal escape for
\* U+0003, so the fourth group takes every character but ETX, greedily; outside
\* the class \3 is the back-reference to the quote of the third group.

LitWebpack == <<"<", "w", "e", "b", "p", "a", "c", "k", "-">>
LitSrc == <<" ", "s", "r", "c", "=">>
Quotes == {"\"", "'"}

NoMatch ==
    [ok |-> FALSE, index |-> 0, end |-> 0, wholeTag |-> <<>>,
     whitespace |-> <<>>, func |-> <<>>, quote |-> "", src |-> <<>>]

\* \s*\/?> at position t: the position of the closing ">", 0 when it fails
TagClose(s, t) ==
    LET u == RunEnd(s, t, WhiteSpace, FALSE) + 1
        v == IF u <= Len(s) /\ s[u] = "/" THEN u + 1 ELSE u
    IN  IF v <= Len(s) /\ s[v] = ">" THEN v ELSE 0

\* the candidates for the last position of the fourth group, [^\3]+ from g on:
\* every position of the greedy run that is followed by the quote and by \s*\/?>
SrcEnds(s, g, quote) ==
    {e \in g..RunEnd(s, g, {ETX}, TRUE) :
        /\ e + 1 <= Len(s)
        /\ s[e + 1] = quote
        /\ TagClose(s, e + 2) # 0}

\* the match that starts at p, has "<" at t, its verb from a to fe and its path
\* argument from g on.  Greedy [^\3]+: backtracking gives the group back one
\* character at a time, so of the candidates `ends' the longest one matches.
TagWithSrc(s, p, t, a, fe, g, ends) ==
    IF ends = {} THEN NoMatch
    ELSE Only({[ok |-> TRUE, index |-> p, end |-> close,
                wholeTag |-> SubSeq(s, p, close),
                whitespace |-> SubSeq(s, p, t - 1),
                func |-> SubSeq(s, a, fe),
                quote |-> s[g - 1],
                src |-> SubSeq(s, g, Max(ends))] :
               close \in {TagClose(s, Max(ends) + 2)}})

\* ([a-z]+) src=("|') from a on, the verb ending at fe
TagWithFunc(s, p, t, a, fe) ==
    LET qpos == fe + 1 + Len(LitSrc)
    IN  IF /\ fe >= a
           /\ StartsWithAt(s, fe + 1, LitSrc)
           /\ qpos <= Len(s)
           /\ s[qpos] \in Quotes
        THEN Only({TagWithSrc(s, p, t, a, fe, qpos + 1, ends) :
                      ends \in {SrcEnds(s, qpos + 1, s[qpos])}})
        ELSE NoMatch

\* <webpack-([a-z]+) src=("|')([^\3]+)\3\s*\/?> with "<" at position t, for a
\* match that starts at position p (p < t when the first group took whitespace)
TagAt(s, p, t) ==
    IF StartsWithAt(s, t, LitWebpack)
    THEN Only({TagWithFunc(s, p, t, t + Len(LitWebpack), fe) :
                  fe \in {RunEnd(s, t + Len(LitWebpack), Lower, FALSE)}})
    ELSE NoMatch

\* one attempt of the regexp at position p.  The optional first group is tried
\* first: ^ needs the start of a line, [\t ]* takes the whole run of blanks [a
\* shorter run is followed by a blank, never by "<"].  Without the group the tag
\* itself starts at p and `whitespace' is undefined, which the model writes <<>>
\* (both are falsy at line 58).
regexpAt(s, p) ==
    IF p = 1 \/ s[p - 1] \in LineTerminator
    THEN Only({IF withBlanks.ok THEN withBlanks ELSE TagAt(s, p, p) :
                  withBlanks \in {Only({TagAt(s, p, t) :
                                     t \in {RunEnd(s, p, SpaceOrTab, FALSE) + 1}})}})
    ELSE TagAt(s, p, p)

\* Array.from(contents.matchAll(regexp)): leftmost match from lastIndex on, then
\* on from the end of that match
matchAll(contents) ==
    Only({LET from[p \in Nat] ==
                  LET later == {m \in found : m.index >= p}
                      next  == CHOOSE m \in later : \A o \in later : m.index <= o.index
                  IN  IF later = {} THEN <<>> ELSE <<next>> \o from[next.end + 1]
          IN  from[1] :
             found \in {{regexpAt(contents, p) : p \in 1..Len(contents)} \ {NoMatch}}})

---------------------------------------------------------------------------
(* Node's path module (POSIX flavour), as far as the loader uses it.       *)

Slash == "/"
Dot == <<".">>
DotDot == <<".", ".">>

\* process.cwd() of the build
cwd == <<"/", "w">>

isAbsolute(p) == p # <<>> /\ p[1] = Slash

\* normalizeString: "" and "." segments dropped, ".." drops the segment before it
normalizeSegments(segs) ==
    LET upTo[i \in Nat] ==
            IF i = 0 THEN <<>>
            ELSE IF segs[i] = <<>> \/ segs[i] = Dot THEN upTo[i - 1]
            ELSE IF segs[i] = DotDot
                 THEN SubSeq(upTo[i - 1], 1, Len(upTo[i - 1]) - 1)
                 ELSE Append(upTo[i - 1], segs[i])
    IN  upTo[Len(segs)]

\* path.resolve(from, to): the arguments are taken right to left until the
\* path is absolute, process.cwd() last; the result is normalized
path_resolve(from, to) ==
    LET joined == IF isAbsolute(to) THEN to
                  ELSE IF isAbsolute(from) THEN from \o <<Slash>> \o to
                  ELSE cwd \o <<Slash>> \o from \o <<Slash>> \o to
    IN  Only({<<Slash>> \o join(segs, <<Slash>>) :
                 segs \in {Only({normalizeSegments(parts) :
                               parts \in {split(joined, Slash)}})}})

\* path.dirname(p)
path_dirname(p) ==
    LET nonSlash == {k \in 1..Len(p) : p[k] # Slash}
        lastChar == IF nonSlash = {} THEN 0 ELSE Max(nonSlash)
        slashes  == {k \in 2..lastChar : p[k] = Slash}
    IN  IF slashes = {} THEN (IF isAbsolute(p) THEN <<Slash>> ELSE Dot)
        ELSE IF isAbsolute(p) /\ Max(slashes) = 2 THEN <<Slash, Slash>>
        ELSE SubSeq(p, 1, Max(slashes) - 1)

\* path.extname(p): from the last "." of the last segment on, the "." included;
\* empty when that segment has no "." or only a leading one
path_extname(p) ==
    LET nonSlash == {k \in 1..Len(p) : p[k] # Slash}
        lastChar == IF nonSlash = {} THEN 0 ELSE Max(nonSlash)
        slashes  == {k \in 1..lastChar : p[k] = Slash}
        first    == IF slashes = {} THEN 1 ELSE Max(slashes) + 1
        dots     == {k \in first..lastChar : p[k] = "."}
    IN  IF dots = {} \/ Max(dots) = first THEN <<>>
        ELSE IF lastChar = first + 1 /\ Max(dots) = lastChar /\ p[first] = "." THEN <<>>
        ELSE SubSeq(p, Max(dots), lastChar)

---------------------------------------------------------------------------
(* The build's environment: the file system and the find process.          *)

LitInject == <<"i", "n", "j", "e", "c", "t">>
LitImport == <<"i", "m", "p", "o", "r", "t">>
LitFoo == <<"f", "o", "o">>
DQ == "\""
SQ == "'"

\* the text of a tag: <webpack-VERB src=QUOTE PATH QUOTE CLOSE>
Tag(verb, quote, path, close) ==
    LitWebpack \o verb \o LitSrc \o <<quote>> \o path \o <<quote>> \o close \o <<">">>

SelfClosing == <<" ", "/">>

File_n == <<"/", "s", "/", "n", ".", "h", "t", "m", "l">>
File_m == <<"/", "s", "/", "m", ".", "h", "t", "m", "l">>
File_b == <<"/", "s", "/", "b", ".", "h", "t", "m", "l">>
File_d == <<"/", "s", "/", "d", ".", "h", "t", "m", "l">>
File_a == <<"/", "s", "/", "a", ".", "h", "t", "m", "l">>
File_c == <<"/", "s", "/", "c", ".", "h", "t", "m", "l">>
File_k == <<"/", "s", "/", "k">>
File_x == <<"/", "s", "/", "x", ".", "h", "t", "m", "l">>

\* the files fs.readFileSync can read, with their contents; File_x and every
\* other path is unreadable
FS ==
    \* a fragment with blanks around it
    (File_n :> <<" ", " ", "<", "b", ">", "H", "<", "/", "b", ">", "\n">>) @@
    \* a fragment of three lines
    (File_m :> <<"<", "i", ">", "\n", "\t", "m", "\n", "<", "/", "i", ">">>) @@
    \* a fragment that injects File_n
    (File_b :> Tag(LitInject, DQ, File_n, <<>>)) @@
    \* a fragment that injects File_b, from an indented line
    (File_d :> <<"<", "s", ">", "\n", " ">> \o Tag(LitInject, DQ, File_b, SelfClosing)
                   \o <<"\n", "<", "/", "s", ">">>) @@
    \* a fragment with two tags on consecutive lines, as the README's index.html
    (File_a :> Tag(LitInject, SQ, File_n, SelfClosing) \o <<"\n">>
                   \o Tag(LitInject, SQ, File_m, SelfClosing)) @@
    \* a fragment that injects itself
    (File_c :> Tag(LitInject, DQ, File_c, <<>>)) @@
    \* a file without extension that holds a tag with an unknown verb
    (File_k :> Tag(LitFoo, SQ, <<"z">>, <<>>))

\* what `find' prints for the files it finds under relativeTo: one line each,
\* every line ended by a line feed
FindStdout(relativeTo, names) ==
    LET upTo[i \in Nat] ==
            IF i = 0 THEN <<>>
            ELSE upTo[i - 1] \o relativeTo \o <<Slash>> \o names[i] \o <<"\n">>
    IN  upTo[Len(names)]

Name_u == <<"u", ".", "c", "s", "s">>
Name_v == <<"v", ".", "c", "s", "s">>

\* the outcomes of cp.execFileSync('find', ...): the process fails (status # 0),
\* or it prints the files it found: none, one or two
FindOutcomes(relativeTo) ==
    {[threw |-> TRUE, found |-> <<>>, stdout |-> <<>>]} \cup
    {[threw |-> FALSE, found |-> names, stdout |-> FindStdout(relativeTo, names)] :
        names \in {<<>>, <<Name_u>>, <<Name_u, Name_v>>}}

---------------------------------------------------------------------------
(* The functions of loader.ts.  A function that may throw returns a record *)
(* whose field ok is FALSE when it throws.                                 *)

\* getInjectorFunc: the function of a verb, "throw" for an unknown verb
getInjectorFunc(func) ==
    IF func = LitInject THEN "getFileContents"
    ELSE IF func = LitImport THEN "addImportStatements"
    ELSE "throw"

LitHtml == <<"h", "t", "m", "l">>
HtmlOpen == <<"<", "!", "-", "-", " ">>
HtmlClose == <<" ", "-", "-", ">">>
BlockOpen == <<"/", "*", " ">>
BlockClose == <<" ", "*", "/">>

\* resourcePath.match(/\.([a-z]{3,4})$/): the letters of the first group, <<>>
\* when the regexp does not match
ExtensionMatch(path) ==
    LET fits == {n \in {3, 4} :
                    /\ Len(path) >= n + 1
                    /\ path[Len(path) - n] = "."
                    /\ \A k \in (Len(path) - n + 1)..Len(path) : path[k] \in Lower}
    IN  IF fits = {} THEN <<>>
        ELSE SubSeq(path, Len(path) - Max(fits) + 1, Len(path))

wrapInCommentSyntax(str, path) ==
    IF ExtensionMatch(path) # <<>>
    THEN [ok |-> TRUE,
          value |-> IF ExtensionMatch(path) = LitHtml
                    THEN HtmlOpen \o str \o HtmlClose
                    ELSE BlockOpen \o str \o BlockClose]
    ELSE [ok |-> FALSE, value |-> <<>>]

\* findMatchingFiles(pattern, relativeTo), given what the find process did
findMatchingFiles(pattern, relativeTo, outcome) ==
    IF outcome.threw
    THEN [ok |-> FALSE, value |-> <<>>]
    ELSE [ok |-> TRUE, value |-> split(outcome.stdout, "\n")]

LitAtImport == <<"@", "i", "m", "p", "o", "r", "t">>
ScriptTypes == {<<"j", "s">>, <<"t", "s">>, <<"t", "s", "x">>, <<"j", "s", "x">>}

\* files.map(p => `${imprt} "${p}";\n`).join('')
ImportLines(imprt, files) ==
    LET upTo[i \in Nat] ==
            IF i = 0 THEN <<>>
            ELSE upTo[i - 1] \o imprt \o <<" ", DQ>> \o files[i] \o <<DQ, ";", "\n">>
    IN  upTo[Len(files)]

\* addImportStatements(pattern, resourcePath), given what the find process did
addImportStatements(pattern, path, outcome) ==
    LET relativeTo == path_dirname(path)
        files == findMatchingFiles(pattern, relativeTo, outcome)
        imprt == IF path_extname(path) \in ScriptTypes THEN LitImport ELSE LitAtImport
    IN  IF ~files.ok THEN [ok |-> FALSE, value |-> <<>>]
        ELSE IF Len(files.value) = 0 THEN [ok |-> FALSE, value |-> <<>>]
        ELSE [ok |-> TRUE, value |-> ImportLines(imprt, files.value)]

\* mutation of getFileContents: this.addDependency(fullpath) moved before the
\* read, so that a path is registered whether or not the file can be read
getFileContentsAddsFirst(getFrom, insertInto) ==
    Only({IF fullpath \in DOMAIN FS
          THEN [ok |-> TRUE, value |-> trim(FS[fullpath]), added |-> {fullpath}]
          ELSE [ok |-> FALSE, value |-> <<>>, added |-> {fullpath}] :
             fullpath \in {path_resolve(insertInto, getFrom)}})

\* getFileContents(getFrom, insertInto): `added' is what it passed to
\* this.addDependency before it returned or threw
getFileContents(getFrom, insertInto) ==
    Only({IF fullpath \in DOMAIN FS
          THEN [ok |-> TRUE, value |-> trim(FS[fullpath]), added |-> {fullpath}]
          ELSE [ok |-> FALSE, value |-> <<>>, added |-> {}] :
             fullpath \in {path_resolve(insertInto, getFrom)}})

---------------------------------------------------------------------------
(* parseAndReplace, one frame of `stack' per call.                         *)

MaxTags == 2
MaxDepth == 6

\* a call of parseAndReplace(contents, resourcePath): the matches are taken once,
\* before the loop; k is the loop's position in them
Frame(contents, path) ==
    [contents |-> contents, resourcePath |-> path,
     matches |-> matchAll(contents), k |-> 1]

Top == stack[Len(stack)]
Pop(stk) == SubSeq(stk, 1, Len(stk) - 1)
InLoop(frame) == frame.k <= Len(frame.matches)
Match(frame) == frame.matches[frame.k]

\* lines 58-59: the replacement, indented when the match has whitespace
Indented(match, replacement) ==
    IF match.whitespace # <<>>
    THEN IndentLines(replacement, match.whitespace)
    ELSE replacement

\* lines 63-64: start = contents.indexOf(wholeTag);
\*   contents.slice(0, start) + replacement + contents.slice(start + wholeTag.length)
\* With start = -1 (position 0) slice(0, -1) drops the last character.
Spliced(contents, wholeTag, replacement) ==
    LET start == indexOf(contents, wholeTag)
    IN  (IF start = 0 THEN SubSeq(contents, 1, Len(contents) - 1)
                      ELSE SubSeq(contents, 1, start - 1))
        \o replacement
        \o SliceFrom(contents, start + Len(wholeTag))

\* lines 57-66: the frame after its current match got `replacement'
Replaced(frame, replacement) ==
    [frame EXCEPT
        !.contents = Spliced(frame.contents, Match(frame).wholeTag,
                             Indented(Match(frame), replacement)),
        !.k = frame.k + 1]

\* what a step records about the tag it handled
Did(kind, frame, replacement) ==
    [kind |-> kind, resourcePath |-> frame.resourcePath, match |-> Match(frame),
     replacement |-> replacement,
     inserted |-> Indented(Match(frame), replacement),
     start |-> indexOf(frame.contents, Match(frame).wholeTag),
     before |-> frame.contents,
     after |-> Replaced(frame, replacement).contents]

NoStep == [kind |-> "none"]

\* lines 52-55 and what follows: the catch block of the innermost call.  The
\* wrapped tag replaces the tag; when wrapInCommentSyntax throws, the call ends
\* and the exception goes to its caller (or out of the loader).
TagFailed ==
    \E wrapped \in {wrapInCommentSyntax(Match(Top).wholeTag, Top.resourcePath)} :
        IF wrapped.ok
        THEN /\ stack' = [stack EXCEPT ![Len(stack)] = Replaced(Top, wrapped.value)]
             /\ exc' = FALSE
             /\ status' = status
             /\ step' = Did("fallback", Top, wrapped.value)
        ELSE /\ stack' = Pop(stack)
             /\ exc' = TRUE
             /\ status' = IF Len(stack) = 1 THEN "thrown" ELSE status
             /\ step' = [kind |-> "throw", resourcePath |-> Top.resourcePath,
                         match |-> Match(Top)]

Running == status = "running" /\ ~exc /\ stack # <<>>

\* the calls below a call parseAndReplace(text, path), as the longest chain of
\* tags whose function returns: an inject tag whose file is read leads to the
\* chain of that file's text; an import tag counts countImport (1 when its find
\* succeeds and its lines go to a recursive call, 0 to leave it out).  `seen'
\* holds the files of the chain so far.
RECURSIVE Chain(_, _, _, _)
Chain(text, path, seen, countImport) ==
    LET ms == matchAll(text)
        below(m) ==
            IF m.func = LitInject /\ path_resolve(path, m.src) \in DOMAIN FS \ seen
            THEN 1 + Chain(trim(FS[path_resolve(path, m.src)]), m.src,
                           seen \cup {path_resolve(path, m.src)}, countImport)
            ELSE IF m.func = LitImport THEN countImport
            ELSE 0
    IN  IF ms = <<>> THEN 0 ELSE Max({below(ms[i]) : i \in DOMAIN ms})

\* no file injects itself, directly or through the files it injects
RECURSIVE NoCycle(_, _, _)
NoCycle(text, path, seen) ==
    \A i \in DOMAIN matchAll(text) :
        LET m == matchAll(text)[i]
            file == path_resolve(path, m.src)
        IN  (m.func = LitInject /\ file \in DOMAIN FS) =>
                /\ file \notin seen
                /\ NoCycle(trim(FS[file]), m.src, seen \cup {file})

\* the chains of the input (text, path): whether no file injects itself, the
\* longest chain of inject tags, and the longest chain of inject and import tags
Shape(text, path) ==
    [acyclic |-> NoCycle(text, path, {}),
     injects |-> Chain(text, path, {}, 0),
     tags    |-> Chain(text, path, {}, 1)]

\* the documents a build hands to the loader: up to MaxTags tags, one per line,
\* every line indented alike
Indents == {<<>>, <<" ", " ">>}

TagChoices ==
    {Tag(LitInject, SQ, <<".", "/", "n", ".", "h", "t", "m", "l">>, SelfClosing),
     Tag(LitInject, SQ, File_n, SelfClosing),
     Tag(LitInject, SQ, File_x, <<>>),
     Tag(LitFoo, DQ, <<"z">>, <<>>),
     Tag(LitImport, SQ, <<"*", ".", "c", "s", "s">>, <<>>),
     Tag(LitInject, DQ, File_a, <<>>),
     Tag(LitInject, DQ, File_d, <<>>),
     Tag(LitInject, SQ, File_c, <<>>),
     Tag(LitInject, DQ, File_k, <<>>)}

RECURSIVE TagLines(_, _)
TagLines(indent, tags) ==
    IF tags = <<>> THEN <<>>
    ELSE indent \o Head(tags) \o <<"\n">> \o TagLines(indent, Tail(tags))

Document(indent, tags) ==
    <<"<", "p", ">", "\n">> \o TagLines(indent, tags) \o <<"<", "/", "p", ">">>

Documents ==
    {Document(indent, tags) :
        indent \in Indents,
        tags \in UNION {[1..n -> TagChoices] : n \in 0..MaxTags}}

ResourcePaths ==
    {<<"/", "s", "/", "i", ".", "h", "t", "m", "l">>,
     <<"/", "s", "/", "a", ".", "j", "s">>,
     <<"/", "s", "/", "t", ".", "c", "s", "s">>}

Init ==
    /\ source \in Documents
    /\ resourcePath \in ResourcePaths
    /\ stack = <<>>
    /\ exc = FALSE
    /\ status = "idle"
    /\ result = <<>>
    /\ deps = {}
    /\ reads = {}
    /\ step = NoStep
    /\ shape = Shape(source, resourcePath)

\* line 21: the loader calls parseAndReplace(source, this.resourcePath)
HtmlInjectorLoader ==
    /\ status = "idle"
    /\ status' = "running"
    /\ stack' = <<Frame(source, resourcePath)>>
    /\ step' = NoStep
    /\ UNCHANGED <<source, resourcePath, shape, exc, result, deps, reads>>

\* mutation of InjectTag: the recursive call is given the caller's own text
\* instead of the replacement, so that it finds the same tags again
InjectTagRescans ==
    /\ Running /\ InLoop(Top) /\ Len(stack) < MaxDepth
    /\ getInjectorFunc(Match(Top).func) = "getFileContents"
    /\ \E got \in {getFileContents(Match(Top).src, Top.resourcePath)} :
           /\ got.ok
           /\ stack' = Append(stack, Frame(Top.contents, Match(Top).src))
           /\ deps' = deps \cup got.added
           /\ reads' = reads \cup {path_resolve(Top.resourcePath, Match(Top).src)}
           /\ step' = [kind |-> "inject", resourcePath |-> Top.resourcePath,
                       match |-> Match(Top)]
    /\ UNCHANGED <<source, resourcePath, shape, exc, status, result>>

\* lines 48-51, func = 'inject', the file is read: its trimmed contents go to a
\* recursive call whose resourcePath is the tag's src.  A file that injects
\* itself makes the code recurse without end; the model stops at MaxDepth calls.
InjectTag ==
    /\ Running /\ InLoop(Top) /\ Len(stack) < MaxDepth
    /\ getInjectorFunc(Match(Top).func) = "getFileContents"
    /\ \E got \in {getFileContents(Match(Top).src, Top.resourcePath)} :
           /\ got.ok
           /\ stack' = Append(stack, Frame(got.value, Match(Top).src))
           /\ deps' = deps \cup got.added
           /\ reads' = reads \cup {path_resolve(Top.resourcePath, Match(Top).src)}
           /\ step' = [kind |-> "inject", resourcePath |-> Top.resourcePath,
                       match |-> Match(Top)]
    /\ UNCHANGED <<source, resourcePath, shape, exc, status, result>>

\* lines 48 and 52-55, func = 'inject', the file cannot be read
InjectFails ==
    /\ Running /\ InLoop(Top)
    /\ getInjectorFunc(Match(Top).func) = "getFileContents"
    /\ \E got \in {getFileContents(Match(Top).src, Top.resourcePath)} :
           /\ ~got.ok
           /\ deps' = deps \cup got.added
    /\ TagFailed
    /\ UNCHANGED <<source, resourcePath, shape, result, reads>>

\* lines 48-51, func = 'import', the import lines are made: they go to a
\* recursive call whose resourcePath is the tag's src
ImportTag ==
    /\ Running /\ InLoop(Top) /\ Len(stack) < MaxDepth
    /\ getInjectorFunc(Match(Top).func) = "addImportStatements"
    /\ \E outcome \in FindOutcomes(path_dirname(Top.resourcePath)) :
          \E got \in {addImportStatements(Match(Top).src, Top.resourcePath, outcome)} :
              /\ got.ok
              /\ stack' = Append(stack, Frame(got.value, Match(Top).src))
              /\ step' = [kind |-> "import", resourcePath |-> Top.resourcePath,
                          match |-> Match(Top), relativeTo |-> path_dirname(Top.resourcePath),
                          found |-> outcome.found, lines |-> got.value]
    /\ UNCHANGED <<source, resourcePath, shape, exc, status, result, deps, reads>>

\* lines 48 and 52-55, func = 'import', addImportStatements throws
ImportFails ==
    /\ Running /\ InLoop(Top)
    /\ getInjectorFunc(Match(Top).func) = "addImportStatements"
    /\ \E outcome \in FindOutcomes(path_dirname(Top.resourcePath)) :
          ~addImportStatements(Match(Top).src, Top.resourcePath, outcome).ok
    /\ TagFailed
    /\ UNCHANGED <<source, resourcePath, shape, result, deps, reads>>

\* lines 48 and 52-55: getInjectorFunc throws for an unknown verb
UnknownVerb ==
    /\ Running /\ InLoop(Top)
    /\ getInjectorFunc(Match(Top).func) = "throw"
    /\ TagFailed
    /\ UNCHANGED <<source, resourcePath, shape, result, deps, reads>>

\* line 68 of a recursive call, then lines 51 and 57-66 of its caller: the text
\* the call returns is the caller's replacement
Return ==
    /\ Running /\ ~InLoop(Top) /\ Len(stack) > 1
    /\ LET caller == stack[Len(stack) - 1]
       IN  /\ stack' = [Pop(stack) EXCEPT ![Len(stack) - 1] =
                            Replaced(caller, Top.contents)]
           /\ step' = Did("replaced", caller, Top.contents)
    /\ UNCHANGED <<source, resourcePath, shape, exc, status, result, deps, reads>>

\* lines 51-55 of a caller whose recursive call threw
CatchNested ==
    /\ status = "running" /\ exc /\ stack # <<>>
    /\ TagFailed
    /\ UNCHANGED <<source, resourcePath, shape, result, deps, reads>>

\* line 68 of the outermost call, then line 22: callback(null, result)
Callback ==
    /\ Running /\ ~InLoop(Top) /\ Len(stack) = 1
    /\ status' = "returned"
    /\ result' = Top.contents
    /\ stack' = <<>>
    /\ step' = NoStep
    /\ UNCHANGED <<source, resourcePath, shape, exc, deps, reads>>

Next ==
    \/ HtmlInjectorLoader
    \/ InjectTag
    \/ InjectFails
    \/ ImportTag
    \/ ImportFails
    \/ UnknownVerb
    \/ Return
    \/ CatchNested
    \/ Callback

Spec == Init /\ [][Next]_vars

\* the loader is synchronous: it runs until it returns or throws
LiveSpec == Spec /\ WF_vars(Next)

---------------------------------------------------------------------------
(* What the claims speak of: the tags of a text as the tag syntax defines  *)
(* them (the path argument ends at the tag's own closing quote), and the   *)
(* chains of tags that a text leads to.                                    *)

\* the run of blanks between the start of the line and position t, <<>> when
\* something else stands before t on its line
LeadingBlanks(s, t) ==
    LET breaks == {k \in 1..(t - 1) : s[k] \in LineTerminator}
        first  == IF breaks = {} THEN 1 ELSE Max(breaks) + 1
    IN  IF \A k \in first..(t - 1) : s[k] \in SpaceOrTab
        THEN SubSeq(s, first, t - 1)
        ELSE <<>>

\* the tag whose "<" is at position t, its path argument being the text between
\* its opening quote and the next occurrence of that quote
TagTextAt(s, t) ==
    LET a    == t + Len(LitWebpack)
        fe   == RunEnd(s, a, Lower, FALSE)
        qpos == fe + 1 + Len(LitSrc)
        g    == qpos + 1
        e    == IF qpos <= Len(s) THEN RunEnd(s, g, {s[qpos]}, TRUE) ELSE 0
    IN  IF /\ StartsWithAt(s, t, LitWebpack)
           /\ fe >= a
           /\ StartsWithAt(s, fe + 1, LitSrc)
           /\ qpos <= Len(s)
           /\ s[qpos] \in Quotes
           /\ e >= g
           /\ e + 1 <= Len(s)
           /\ TagClose(s, e + 2) # 0
        THEN [ok |-> TRUE,
              index |-> t - Len(LeadingBlanks(s, t)),
              end |-> TagClose(s, e + 2),
              wholeTag |-> SubSeq(s, t - Len(LeadingBlanks(s, t)), TagClose(s, e + 2)),
              whitespace |-> LeadingBlanks(s, t),
              func |-> SubSeq(s, a, fe),
              quote |-> s[qpos],
              src |-> SubSeq(s, g, e)]
        ELSE NoMatch

\* the tags of a text, in document order
TagsOf(s) ==
    LET found == {TagTextAt(s, t) : t \in 1..Len(s)} \ {NoMatch}
        from[p \in Nat] ==
            LET later == {m \in found : m.index + Len(m.whitespace) >= p}
                next  == CHOOSE m \in later : \A o \in later : m.end <= o.end
            IN  IF later = {} THEN <<>> ELSE <<next>> \o from[next.end + 1]
    IN  from[1]

Srcs(ms) == [i \in DOMAIN ms |-> ms[i].src]

Contains(s, lit) == indexOf(s, lit) # 0

\* the file a path argument names, the tag being in a file of directory dir
Named(dir, path) == path_resolve(dir, path)

AcyclicInput == shape.acyclic

Halted == status \in {"returned", "thrown"}

IsStep(kinds) == step.kind \in kinds

---------------------------------------------------------------------------
(* The claims.                                                             *)

\* C1: a document with exactly one tag, an inject tag (not indented) whose path
\* argument names a sibling of the resource, comes back with the tag replaced
\* by the trimmed contents of that sibling.
C1_SingleInjectReplaced ==
    LET tags == TagsOf(source)
        dir  == path_dirname(resourcePath)
        file == Named(dir, tags[1].src)
    IN  (/\ status = "returned"
         /\ Len(tags) = 1
         /\ tags[1].func = LitInject
         /\ tags[1].whitespace = <<>>
         /\ file \in DOMAIN FS
         /\ path_dirname(file) = dir)
        => result = SubSeq(source, 1, tags[1].index - 1)
                        \o trim(FS[file])
                        \o SliceFrom(source, tags[1].end + 1)

\* C2: the scan a call starts with yields one match per tag of its text, in
\* document order, each with the path argument between that tag's own quotes.
C2_OneMatchPerTag ==
    \A i \in DOMAIN stack :
        stack[i].k = 1 =>
            Srcs(stack[i].matches) = Srcs(TagsOf(stack[i].contents))

\* every tag of the text is an inject tag with an absolute path to a readable
\* file whose own tags are such tags too
RECURSIVE AllValid(_, _)
AllValid(text, seen) ==
    \A i \in DOMAIN TagsOf(text) :
        LET tag == TagsOf(text)[i]
        IN  /\ tag.func = LitInject
            /\ isAbsolute(tag.src)
            /\ tag.src \in DOMAIN FS \ seen
            /\ AllValid(trim(FS[tag.src]), seen \cup {tag.src})

InjectsTaggedFile(text) ==
    \E i \in DOMAIN TagsOf(text) :
        /\ TagsOf(text)[i].src \in DOMAIN FS
        /\ TagsOf(FS[TagsOf(text)[i].src]) # <<>>

\* C3: when the document injects a file that holds tags, and every tag at every
\* depth is valid, the returned text holds no <webpack-* tag.
C3_NoResidualTag ==
    (/\ status = "returned"
     /\ InjectsTaggedFile(source)
     /\ AllValid(source, {}))
    => ~Contains(result, LitWebpack)

\* a tag that fails: its verb is unknown, or it injects a file nothing can read
Failing(tag) ==
    \/ tag.func \notin {LitInject, LitImport}
    \/ tag.func = LitInject /\ isAbsolute(tag.src) /\ tag.src \notin DOMAIN FS

\* a tag that resolves in one step: it injects a readable file without tags
Plain(tag) ==
    /\ tag.func = LitInject
    /\ isAbsolute(tag.src)
    /\ tag.src \in DOMAIN FS
    /\ TagsOf(FS[tag.src]) = <<>>

\* what stands for a tag in the output: the commented-out tag for a failing tag,
\* the file's trimmed contents for a plain one, indented as the tag was
Resolved(tag) ==
    Indented(tag, IF Failing(tag)
                  THEN HtmlOpen \o tag.wholeTag \o HtmlClose
                  ELSE trim(FS[tag.src]))

\* C4: in a document of an .html resource that holds a failing tag and a plain
\* tag, the loader does not throw, the failing tag is commented out in place and
\* the plain tag is resolved as if it stood alone.
C4_FailureIsolated ==
    LET tags == TagsOf(source)
    IN  (/\ Halted
         /\ path_extname(resourcePath) = <<".">> \o LitHtml
         /\ Len(tags) = 2
         /\ \E i, j \in 1..2 : i # j /\ Failing(tags[i]) /\ Plain(tags[j]))
        => /\ status = "returned"
           /\ result = SubSeq(source, 1, tags[1].index - 1)
                           \o Resolved(tags[1])
                           \o SubSeq(source, tags[1].end + 1, tags[2].index - 1)
                           \o Resolved(tags[2])
                           \o SliceFrom(source, tags[2].end + 1)

\* C5: the fallback of a failed tag is an HTML comment for an .html resource and
\* a block comment for every other extension; wrapInCommentSyntax throws only
\* for a path without any extension.
C5_FallbackByExtension ==
    /\ IsStep({"fallback"}) =>
          step.replacement =
              IF path_extname(step.resourcePath) = <<".">> \o LitHtml
              THEN HtmlOpen \o step.match.wholeTag \o HtmlClose
              ELSE BlockOpen \o step.match.wholeTag \o BlockClose
    /\ IsStep({"throw"}) => path_extname(step.resourcePath) = <<>>

\* the lines of a text
Lines(text) == split(text, "\n")

\* C6: the text that replaces a tag with leading whitespace W is the replacement
\* with W before every line; for a tag without leading whitespace it is the
\* replacement itself; it stands in the text where the tag was found.
C6_EveryLineIndented ==
    IsStep({"replaced", "fallback"}) =>
        LET W == step.match.whitespace
            given == Lines(step.replacement)
            put == Lines(step.inserted)
        IN  /\ W # <<>> =>
                  /\ Len(put) = Len(given)
                  /\ \A i \in DOMAIN put : put[i] = W \o given[i]
            /\ W = <<>> => step.inserted = step.replacement
            /\ step.start # 0 => StartsWithAt(step.after, step.start, step.inserted)

\* C6 happens: a replacement of three lines or more has replaced an indented tag
C6_Witness ==
    /\ IsStep({"replaced"})
    /\ step.match.whitespace # <<>>
    /\ Len(Lines(step.replacement)) >= 3

\* C7: the paths given to addDependency are exactly the files read successfully.
C7_DependenciesAreReads == deps = reads

\* C7 happens: the loader returned after it read a file, a file that file
\* injects and a file that one injects, and failed to read another
C7_Witness ==
    /\ status = "returned"
    /\ {File_d, File_b, File_n} \subseteq deps
    /\ Contains(source, File_x)

\* the import lines the claim describes: one per matched file, with `import'
\* for a script resource and `@import' for any other
RECURSIVE ClaimedImportLines(_, _, _)
ClaimedImportLines(path, relativeTo, found) ==
    IF found = <<>> THEN <<>>
    ELSE (IF SliceFrom(path_extname(path), 2) \in ScriptTypes
          THEN LitImport ELSE LitAtImport)
         \o <<" ", DQ>> \o relativeTo \o <<Slash>> \o Head(found) \o <<DQ, ";", "\n">>
         \o ClaimedImportLines(path, relativeTo, Tail(found))

\* C8: an import tag that matches files gives one line per file, import "..."
\* for a js, ts, tsx or jsx resource and @import "..." for any other.
C8_ImportLinePerFile ==
    (IsStep({"import"}) /\ step.found # <<>>) =>
        step.lines = ClaimedImportLines(step.resourcePath, step.relativeTo, step.found)

\* C9: an import tag whose pattern matches no file fails: no import lines are
\* made for it.
C9_NoFileNoImport ==
    IsStep({"import"}) => step.found # <<>>

\* C10 as stated: without a file that injects itself, the calls in progress
\* never outnumber the longest chain of inject tags (plus the loader's call).
C10_DepthByInjectChain ==
    AcyclicInput => Len(stack) <= 1 + shape.injects

\* C10 as amended: without a file that injects itself the loader returns or
\* throws, and the calls in progress never outnumber the longest chain of tags,
\* an import tag counting one call.
C10_Terminates ==
    /\ [](AcyclicInput => Len(stack) <= 1 + shape.tags)
    /\ (AcyclicInput ~> Halted)

\* C10 happens: the loader returned for an input without a file that injects
\* itself and with a chain of three tags
C10_Witness ==
    /\ AcyclicInput
    /\ status = "returned"
    /\ shape.tags = 3

=============================================================================
